---- MODULE Spec2Model ----
(***************************************************************************)
(* Element-reference registry, DOM snapshot, element locator and form      *)
(* value setter of the browser tools demo, as a state machine.             *)
(*                                                                         *)
(*   snapshot script : src/unnamed/part_003 (window.__generateAccessibilityTree) *)
(*   locator script  : browser_tool_utils/browser_element_script.js        *)
(*   value setter    : browser_tool_utils/browser_form_input_script.js     *)
(*                                                                         *)
(* Strings are TLA+ strings; JavaScript string operations (trim, includes, *)
(* substring, replace) are computed character by character.  An absent     *)
(* attribute (getAttribute(...) === null) is the value Null.               *)
(***************************************************************************)
EXTENDS Integers, Sequences, FiniteSets, TLC

VARIABLES
  doc,          \* the page the browser has loaded: elements, layout, viewport
  linked,       \* element -> is it a child of its parent node right now
  collected,    \* element -> has the engine garbage-collected the node
  ctl,          \* element -> live control state (value, checked, selectedIndex)
  scrollY,      \* vertical scroll offset of the viewport
  scrollTarget, \* offset a smooth scroll in progress will arrive at (-1: none)
  hasMap,       \* window.__claudeElementMap exists
  elementMap,   \* window.__claudeElementMap: reference string -> element
  refCounter,   \* window.__claudeRefCounter (0 while undefined)
  pc,           \* position of the setValue call in flight ("idle": none)
  call,         \* locals of the setValue call in flight
  ret,          \* what the call that just completed returned or threw
  snap,         \* per-line detail of the snapshot pass that just completed
  minted,       \* references minted so far in this page session (history)
  events        \* steps of the current or last setValue call (history)

vars == <<doc, linked, collected, ctl, scrollY, scrollTarget, hasMap,
          elementMap, refCounter, pc, call, ret, snap, minted, events>>

-----------------------------------------------------------------------------
(* Bounds of the model *)

\* references a page session may mint beyond one for each of its elements
MaxRemint == 0

\* steps the listeners of one setValue call take in all
MaxListenerSteps == 1

-----------------------------------------------------------------------------
(* JavaScript values and strings *)

Null == "<null>"

Min(a, b) == IF a < b THEN a ELSE b
Max(a, b) == IF a > b THEN a ELSE b

\* a truthy attribute value: neither null nor the empty string
Truthy(s) == s # Null /\ s # ""

IsSpace(c) == c \in {" ", "\n", "\t"}

CharAt(s, i) == SubSeq(s, i, i)

RECURSIVE TrimLeft(_)
TrimLeft(s) ==
  IF Len(s) > 0 /\ IsSpace(CharAt(s, 1)) THEN TrimLeft(SubSeq(s, 2, Len(s))) ELSE s

RECURSIVE TrimRight(_)
TrimRight(s) ==
  IF Len(s) > 0 /\ IsSpace(CharAt(s, Len(s)))
  THEN TrimRight(SubSeq(s, 1, Len(s) - 1)) ELSE s

\* String.prototype.trim
Trim(s) == TrimRight(TrimLeft(s))

\* String.prototype.includes
Includes(s, kw) ==
  \E i \in 1..(Len(s) - Len(kw) + 1) : SubSeq(s, i, i + Len(kw) - 1) = kw

LowerLetters == "abcdefghijklmnopqrstuvwxyz"
UpperLetters == "ABCDEFGHIJKLMNOPQRSTUVWXYZ"

\* one character in upper case
UpperChar(c) ==
  IF \E i \in 1..26 : CharAt(LowerLetters, i) = c
  THEN CharAt(UpperLetters, CHOOSE i \in 1..26 : CharAt(LowerLetters, i) = c)
  ELSE c

RECURSIVE ToUpperCase(_)
\* the string in upper case, as element.tagName gives the tag of an HTML
\* element
ToUpperCase(s) ==
  IF Len(s) = 0 THEN "" ELSE UpperChar(CharAt(s, 1)) \o ToUpperCase(SubSeq(s, 2, Len(s)))

\* String.prototype.substring(0, n)
Substring0(s, n) == SubSeq(s, 1, Min(n, Len(s)))

\* s.replace(/\s+/g, " ")
RECURSIVE CollapseSpace(_)
CollapseSpace(s) ==
  IF Len(s) = 0 THEN ""
  ELSE IF IsSpace(CharAt(s, 1))
       THEN " " \o CollapseSpace(TrimLeft(s))
       ELSE CharAt(s, 1) \o CollapseSpace(SubSeq(s, 2, Len(s)))

\* s.replace(/"/g, '\\"')
RECURSIVE EscapeQuotes(_)
EscapeQuotes(s) ==
  IF Len(s) = 0 THEN ""
  ELSE (IF CharAt(s, 1) = "\"" THEN "\\\"" ELSE CharAt(s, 1))
       \o EscapeQuotes(SubSeq(s, 2, Len(s)))

\* "  ".repeat(n)
RECURSIVE Indent(_)
Indent(n) == IF n <= 0 THEN "" ELSE "  " \o Indent(n - 1)

\* s.split(sep).pop(): what follows the last sep
RECURSIVE AfterLast(_, _)
AfterLast(s, sep) ==
  IF \E i \in 1..Len(s) : CharAt(s, i) = sep
  THEN AfterLast(SubSeq(s, 1 + (CHOOSE i \in 1..Len(s) : CharAt(s, i) = sep), Len(s)), sep)
  ELSE s

\* s.split(sep)[0]: what precedes the first sep
BeforeFirst(s, sep) ==
  IF \E i \in 1..Len(s) : CharAt(s, i) = sep
  THEN LET i == CHOOSE j \in 1..Len(s) :
                  CharAt(s, j) = sep /\ \A k \in 1..(j - 1) : CharAt(s, k) # sep
       IN SubSeq(s, 1, i - 1)
  ELSE s

\* src.split("/").pop()?.split("?")[0]
FileName(src) == BeforeFirst(AfterLast(src, "/"), "?")

\* JavaScript values a caller passes: a boolean, a string or a number
JBool(x) == [t |-> "bool", b |-> x, s |-> "", n |-> 0]
JStr(x) == [t |-> "str", b |-> FALSE, s |-> x, n |-> 0]
JNum(x) == [t |-> "num", b |-> FALSE, s |-> "", n |-> x]

Digits == {"0", "1", "2", "3", "4", "5", "6", "7", "8", "9"}

AllDigits(s) == Len(s) > 0 /\ \A i \in 1..Len(s) : CharAt(s, i) \in Digits

DigitVal(c) == CHOOSE d \in 0..9 : ToString(d) = c

RECURSIVE StrToNat(_)
StrToNat(s) ==
  IF Len(s) = 0 THEN 0
  ELSE 10 * StrToNat(SubSeq(s, 1, Len(s) - 1)) + DigitVal(CharAt(s, Len(s)))

-----------------------------------------------------------------------------
(* The page: a tree of elements.  Element 1 is document.body.  A node keeps *)
(* its place in the tree; the page script unlinks it from its parent and    *)
(* links it back.  <option> children of a <select> have no layout box of    *)
(* their own and are kept as the select's options field.  Elements are      *)
(* numbered in document order.  volatile names the nodes the page's script  *)
(* removes and re-inserts, values the values the driver passes to setValue  *)
(* on that page.                                                            *)

BaseEl ==
  [tag |-> "div", parent |-> 1,
   role |-> Null, type |-> Null, ariaHidden |-> Null, ariaLabel |-> Null,
   placeholder |-> Null, title |-> Null, alt |-> Null, href |-> Null,
   src |-> Null, valueAttr |-> Null, onclick |-> Null, tabindex |-> Null,
   contenteditable |-> Null, htmlFor |-> Null,
   id |-> "", className |-> "", text |-> "", name |-> "",
   cssDisplay |-> "block", cssVisibility |-> "visible", cssOpacity |-> "1",
   styleDisplay |-> "", styleVisibility |-> "", disabled |-> FALSE,
   checkedAttr |-> FALSE, options |-> <<>>,
   x |-> 0, y |-> 0, w |-> 100, h |-> 20]

Opt(v, t, sel) == [value |-> v, text |-> t, selected |-> sel]

\* a short article: an excluded wrapper around a nameless text box, a heading
\* and a link that lies below the fold
PageArticle ==
  [innerWidth |-> 100, innerHeight |-> 100, height |-> 300, volatile |-> {5},
   values |-> {JStr("abc"), JStr(""), JBool(TRUE)},
   els |-> <<
     [BaseEl EXCEPT !.tag = "body", !.parent = 0, !.h = 100],
     [BaseEl EXCEPT !.className = "row", !.y = 20],
     [BaseEl EXCEPT !.tag = "input", !.type = "text", !.parent = 2, !.y = 20],
     [BaseEl EXCEPT !.tag = "h1", !.text = "News", !.y = 0],
     [BaseEl EXCEPT !.tag = "a", !.href = "/next", !.text = " More ", !.y = 250]
   >>]

\* a form: the body carries an id, the select declares a default option, the
\* check box is named by its label
PageForm ==
  [innerWidth |-> 100, innerHeight |-> 100, height |-> 100, volatile |-> {2},
   values |-> {JStr("Blue"), JStr("b"), JStr("Purple"), JBool(TRUE), JBool(FALSE)},
   els |-> <<
     [BaseEl EXCEPT !.tag = "body", !.parent = 0, !.id = "app", !.h = 100],
     [BaseEl EXCEPT !.tag = "form", !.id = "f", !.h = 80],
     [BaseEl EXCEPT !.tag = "select", !.parent = 2,
        !.options = <<Opt("r", "Red", TRUE), Opt("b", "Blue", FALSE),
                      Opt("x", " b ", FALSE)>>],
     [BaseEl EXCEPT !.tag = "input", !.type = "checkbox", !.id = "agree",
        !.parent = 2, !.y = 20],
     [BaseEl EXCEPT !.tag = "label", !.htmlFor = "agree", !.text = "I agree",
        !.parent = 2, !.y = 40]
   >>]

\* a page whose span carries an id with a double quote in it
PageQuoted ==
  [innerWidth |-> 100, innerHeight |-> 100, height |-> 100, volatile |-> {3},
   values |-> {JStr("abc"), JStr("70"), JNum(170), JBool(FALSE)},
   els |-> <<
     [BaseEl EXCEPT !.tag = "body", !.parent = 0, !.h = 100],
     [BaseEl EXCEPT !.tag = "button", !.text = "OK"],
     [BaseEl EXCEPT !.tag = "span", !.id = "a\"b", !.text = "hello", !.y = 20],
     [BaseEl EXCEPT !.tag = "input", !.type = "range", !.valueAttr = "50", !.y = 40]
   >>]

\* a deep page: fourteen sections nested in one another below the body; the
\* innermost holds a fifteenth section with a button, and beside it a plain
\* div with a button
PageDeep ==
  [innerWidth |-> 100, innerHeight |-> 100, height |-> 100, volatile |-> {},
   values |-> {JBool(TRUE)},
   els |-> [e \in 1..19 |->
     IF e = 1 THEN [BaseEl EXCEPT !.tag = "body", !.parent = 0, !.h = 100]
     ELSE IF e <= 16 THEN [BaseEl EXCEPT !.tag = "section", !.parent = e - 1]
     ELSE IF e = 17 THEN [BaseEl EXCEPT !.tag = "button", !.text = "In", !.parent = 16]
     ELSE IF e = 18 THEN [BaseEl EXCEPT !.parent = 15]
     ELSE [BaseEl EXCEPT !.tag = "button", !.text = "Beside", !.parent = 18]]]

\* a page of containers: a div and a list whose class names hold "nav", the
\* div around a button; a div classed "content" around a heading; an empty
\* span with the id "sidebar"
PageNav ==
  [innerWidth |-> 100, innerHeight |-> 100, height |-> 100, volatile |-> {3, 7},
   values |-> {JStr("abc")},
   els |-> <<
     [BaseEl EXCEPT !.tag = "body", !.parent = 0, !.h = 100],
     [BaseEl EXCEPT !.className = "nav-bar"],
     [BaseEl EXCEPT !.tag = "button", !.text = "Go", !.parent = 2],
     [BaseEl EXCEPT !.tag = "ul", !.className = "nav", !.y = 20],
     [BaseEl EXCEPT !.className = "content", !.y = 40],
     [BaseEl EXCEPT !.tag = "h2", !.text = "Title", !.parent = 5, !.y = 40],
     [BaseEl EXCEPT !.tag = "span", !.id = "sidebar", !.y = 60]
   >>]

\* a page of controls: an e-mail box, two radio buttons of one group, a
\* date box, a number box and a text area
PageControls ==
  [innerWidth |-> 100, innerHeight |-> 100, height |-> 100, volatile |-> {},
   values |-> {JStr("7"), JStr("2024-01-02")},
   els |-> <<
     [BaseEl EXCEPT !.tag = "body", !.parent = 0, !.h = 100],
     [BaseEl EXCEPT !.tag = "input", !.type = "email"],
     [BaseEl EXCEPT !.tag = "input", !.type = "radio", !.name = "g",
        !.checkedAttr = TRUE, !.y = 20],
     [BaseEl EXCEPT !.tag = "input", !.type = "radio", !.name = "g", !.y = 20],
     [BaseEl EXCEPT !.tag = "input", !.type = "date", !.y = 40],
     [BaseEl EXCEPT !.tag = "input", !.type = "number", !.y = 60],
     [BaseEl EXCEPT !.tag = "textarea", !.y = 80]
   >>]

Pages == {PageArticle, PageForm, PageQuoted, PageDeep, PageNav, PageControls}

Doc == doc
Elems == DOMAIN doc.els
El(e) == doc.els[e]
Root == 1

RECURSIVE InDocument(_)
\* document.contains(e)
InDocument(e) ==
  IF e = Root THEN TRUE
  ELSE linked[e] /\ InDocument(El(e).parent)

\* element.children, in document order
Children(e) == {c \in Elems : El(c).parent = e /\ linked[c]}

RECURSIVE SetToSeq(_)
\* the elements of a set of numbers in ascending order
SetToSeq(S) ==
  IF S = {} THEN <<>>
  ELSE LET m == CHOOSE a \in S : \A b \in S : a <= b
       IN <<m>> \o SetToSeq(S \ {m})

RECURSIVE Subtree(_)
\* e and every node linked below it
Subtree(e) == {e} \cup UNION {Subtree(c) : c \in Children(e)}

RECURSIVE TextContent(_)
\* node.textContent: the node's own text, then its children's
TextContent(e) ==
  LET kids == SetToSeq(Children(e))
      F[i \in 0..Len(kids)] ==
        IF i = 0 THEN "" ELSE F[i - 1] \o TextContent(kids[i])
  IN El(e).text \o F[Len(kids)]

\* element.getBoundingClientRect()
Rect(e) ==
  [left |-> El(e).x, right |-> El(e).x + El(e).w,
   top |-> El(e).y - scrollY, bottom |-> El(e).y - scrollY + El(e).h,
   width |-> El(e).w, height |-> El(e).h]

-----------------------------------------------------------------------------
(* Snapshot script: role, accessible name and the inclusion decision *)

\* the tag -> role table of getRole
RoleOfTag(tag, type) ==
  CASE tag = "a" -> "link"
    [] tag = "button" -> "button"
    [] tag = "input" ->
         (IF type = "submit" \/ type = "button" THEN "button"
          ELSE IF type = "checkbox" THEN "checkbox"
          ELSE IF type = "radio" THEN "radio"
          ELSE IF type = "file" THEN "button"
          ELSE "textbox")
    [] tag = "select" -> "combobox"
    [] tag = "textarea" -> "textbox"
    [] tag \in {"h1", "h2", "h3", "h4", "h5", "h6"} -> "heading"
    [] tag = "img" -> "image"
    [] tag = "nav" -> "navigation"
    [] tag = "main" -> "main"
    [] tag = "header" -> "banner"
    [] tag = "footer" -> "contentinfo"
    [] tag = "section" -> "region"
    [] tag = "article" -> "article"
    [] tag = "aside" -> "complementary"
    [] tag = "form" -> "form"
    [] tag = "table" -> "table"
    [] tag \in {"ul", "ol"} -> "list"
    [] tag = "li" -> "listitem"
    [] tag = "label" -> "label"
    [] OTHER -> "generic"

getRole(e) ==
  IF Truthy(El(e).role) THEN El(e).role ELSE RoleOfTag(El(e).tag, El(e).type)

\* element.value of a control
ValueOf(e) ==
  IF El(e).tag = "select"
  THEN (IF ctl[e].selectedIndex >= 0
        THEN El(e).options[ctl[e].selectedIndex + 1].value ELSE "")
  ELSE ctl[e].value

\* selectElement.querySelector("option[selected]") || options[selectedIndex]:
\* the index (from 1) of that option, 0 when there is none
SelectedOptionForName(e) ==
  LET opts == El(e).options
      declared == {i \in 1..Len(opts) : opts[i].selected}
  IN IF declared # {} THEN CHOOSE i \in declared : \A j \in declared : i <= j
     ELSE IF ctl[e].selectedIndex >= 0 THEN ctl[e].selectedIndex + 1
     ELSE 0

\* document.querySelector('label[for="' + id + '"]'): a selector built from an
\* id with a double quote or a backslash in it is not valid and throws
BadSelector(id) == Includes(id, "\"") \/ Includes(id, "\\")

LabelsFor(id) ==
  {l \in Elems : InDocument(l) /\ El(l).tag = "label" /\ El(l).htmlFor = id}

\* The name sources of getCleanName in priority order.  at is the number of
\* the source that answers (0: none, the name is empty); 6 is the label
\* lookup, which throws on a bad selector.
NameSource(e) ==
  LET a == El(e)
      tag == a.tag
      so == IF tag = "select" THEN SelectedOptionForName(e) ELSE 0
      labels == IF a.id # "" /\ ~BadSelector(a.id) THEN LabelsFor(a.id) ELSE {}
      label == IF labels = {} THEN 0
               ELSE CHOOSE l \in labels : \A m \in labels : l <= m
      direct == Trim(a.text)
  IN IF so > 0 /\ a.options[so].text # ""
       THEN [at |-> 1, name |-> Trim(a.options[so].text), throws |-> FALSE]
     ELSE IF Truthy(a.ariaLabel) /\ Trim(a.ariaLabel) # ""
       THEN [at |-> 2, name |-> Trim(a.ariaLabel), throws |-> FALSE]
     ELSE IF Truthy(a.placeholder) /\ Trim(a.placeholder) # ""
       THEN [at |-> 3, name |-> Trim(a.placeholder), throws |-> FALSE]
     ELSE IF Truthy(a.title) /\ Trim(a.title) # ""
       THEN [at |-> 4, name |-> Trim(a.title), throws |-> FALSE]
     ELSE IF Truthy(a.alt) /\ Trim(a.alt) # ""
       THEN [at |-> 5, name |-> Trim(a.alt), throws |-> FALSE]
     ELSE IF a.id # "" /\ BadSelector(a.id)
       THEN [at |-> 6, name |-> "", throws |-> TRUE]
     ELSE IF label > 0 /\ Trim(TextContent(label)) # ""
       THEN [at |-> 6, name |-> Trim(TextContent(label)), throws |-> FALSE]
     ELSE IF tag = "input" /\ a.type = "submit" /\ Truthy(a.valueAttr)
             /\ Trim(a.valueAttr) # ""
       THEN [at |-> 7, name |-> Trim(a.valueAttr), throws |-> FALSE]
     ELSE IF tag = "input" /\ ctl[e].value # "" /\ Len(ctl[e].value) < 50
             /\ Trim(ctl[e].value) # ""
       THEN [at |-> 8, name |-> Trim(ctl[e].value), throws |-> FALSE]
     ELSE IF tag \in {"button", "a", "summary"} /\ direct # ""
       THEN [at |-> 9, name |-> direct, throws |-> FALSE]
     ELSE IF tag \in {"h1", "h2", "h3", "h4", "h5", "h6"}
             /\ Trim(TextContent(e)) # ""
       THEN [at |-> 10, name |-> Substring0(Trim(TextContent(e)), 100),
             throws |-> FALSE]
     ELSE IF tag = "img" /\ Truthy(a.src)
       THEN [at |-> 11, name |-> "Image: " \o FileName(a.src), throws |-> FALSE]
     ELSE IF Len(direct) >= 3
       THEN [at |-> 12,
             name |-> IF Len(direct) > 50 THEN Substring0(direct, 50) \o "..."
                      ELSE direct,
             throws |-> FALSE]
     ELSE [at |-> 0, name |-> "", throws |-> FALSE]

getCleanName(e) == NameSource(e).name
NameThrows(e) == NameSource(e).throws

isVisible(e) ==
  /\ El(e).cssDisplay # "none"
  /\ El(e).cssVisibility # "hidden"
  /\ El(e).cssOpacity # "0"
  /\ El(e).w > 0
  /\ El(e).h > 0

isInteractive(e) ==
  \/ El(e).tag \in {"a", "button", "input", "select", "textarea", "details", "summary"}
  \/ El(e).onclick # Null
  \/ El(e).tabindex # Null
  \/ El(e).role = "button"
  \/ El(e).role = "link"
  \/ El(e).contenteditable = "true"

isSemantic(e) ==
  \/ El(e).tag \in {"h1", "h2", "h3", "h4", "h5", "h6", "nav", "main", "header",
                    "footer", "section", "article", "aside"}
  \/ El(e).role # Null

isContainerElement(e) ==
  \/ El(e).role \in {"search", "form", "group", "toolbar", "navigation"}
  \/ El(e).tag \in {"form", "fieldset", "nav"}
  \/ \E kw \in {"search", "form", "menu", "nav"} :
       Includes(El(e).id, kw) \/ Includes(El(e).className, kw)

FunctionalKeywords ==
  {"search", "dropdown", "menu", "modal", "dialog", "popup", "toolbar",
   "sidebar", "content", "text"}

\* C11 mutant: the viewport test accepts every element
inViewport_Always(e) == TRUE

inViewport(e) ==
  /\ Rect(e).top < Doc.innerHeight
  /\ Rect(e).bottom > 0
  /\ Rect(e).left < Doc.innerWidth
  /\ Rect(e).right > 0

\* C30 mutant: the interactive filter skips the viewport test
shouldIncludeElement_InteractiveOffscreen(e, filter) ==
  IF El(e).tag \in {"script", "style", "meta", "link", "title", "noscript"} THEN "no"
  ELSE IF El(e).ariaHidden = "true" THEN "no"
  ELSE IF ~isVisible(e) THEN "no"
  ELSE IF filter = "interactive"
    THEN (IF isInteractive(e) THEN "yes" ELSE "no")
  ELSE IF filter # "all" /\ ~inViewport(e) THEN "no"
  ELSE IF isInteractive(e) THEN "yes"
  ELSE IF isSemantic(e) THEN "yes"
  ELSE IF NameThrows(e) THEN "throw"
  ELSE IF Len(getCleanName(e)) > 0 THEN "yes"
  ELSE IF getRole(e) = "generic" /\ El(e).tag \in {"div", "span"}
    THEN (IF \E kw \in FunctionalKeywords :
               Includes(El(e).id, kw) \/ Includes(El(e).className, kw)
          THEN "yes" ELSE "no")
  ELSE IF isContainerElement(e) THEN "yes"
  ELSE "no"

\* C21 mutant: the container rule is applied to plain div and span too
shouldIncludeElement_ContainerForAll(e, filter) ==
  IF El(e).tag \in {"script", "style", "meta", "link", "title", "noscript"} THEN "no"
  ELSE IF El(e).ariaHidden = "true" THEN "no"
  ELSE IF ~isVisible(e) THEN "no"
  ELSE IF filter # "all" /\ ~inViewport(e) THEN "no"
  ELSE IF filter = "interactive"
    THEN (IF isInteractive(e) THEN "yes" ELSE "no")
  ELSE IF isInteractive(e) THEN "yes"
  ELSE IF isSemantic(e) THEN "yes"
  ELSE IF NameThrows(e) THEN "throw"
  ELSE IF Len(getCleanName(e)) > 0 THEN "yes"
  ELSE IF /\ getRole(e) = "generic" /\ El(e).tag \in {"div", "span"}
          /\ \E kw \in FunctionalKeywords :
                Includes(El(e).id, kw) \/ Includes(El(e).className, kw)
    THEN "yes"
  ELSE IF isContainerElement(e) THEN "yes"
  ELSE "no"

\* C10 mutant: the default filter no longer accepts an element for being
\* interactive
shouldIncludeElement_NoInteractive(e, filter) ==
  IF El(e).tag \in {"script", "style", "meta", "link", "title", "noscript"} THEN "no"
  ELSE IF El(e).ariaHidden = "true" THEN "no"
  ELSE IF ~isVisible(e) THEN "no"
  ELSE IF filter # "all" /\ ~inViewport(e) THEN "no"
  ELSE IF filter = "interactive"
    THEN (IF isInteractive(e) THEN "yes" ELSE "no")
  ELSE IF isSemantic(e) THEN "yes"
  ELSE IF NameThrows(e) THEN "throw"
  ELSE IF Len(getCleanName(e)) > 0 THEN "yes"
  ELSE IF isContainerElement(e) THEN "yes"
  ELSE "no"

\* shouldIncludeElement: "yes", "no", or "throw" when the name derivation
\* it calls throws
shouldIncludeElement(e, filter) ==
  IF El(e).tag \in {"script", "style", "meta", "link", "title", "noscript"} THEN "no"
  ELSE IF El(e).ariaHidden = "true" THEN "no"
  ELSE IF ~isVisible(e) THEN "no"
  ELSE IF filter # "all" /\ ~inViewport(e) THEN "no"
  ELSE IF filter = "interactive"
    THEN (IF isInteractive(e) THEN "yes" ELSE "no")
  ELSE IF isInteractive(e) THEN "yes"
  ELSE IF isSemantic(e) THEN "yes"
  ELSE IF NameThrows(e) THEN "throw"
  ELSE IF Len(getCleanName(e)) > 0 THEN "yes"
  ELSE IF getRole(e) = "generic" /\ El(e).tag \in {"div", "span"}
    THEN (IF Len(getCleanName(e)) >= 3 THEN "yes"
          ELSE IF \E kw \in FunctionalKeywords :
                    Includes(El(e).id, kw) \/ Includes(El(e).className, kw)
            THEN "yes"
          ELSE "no")
  ELSE IF isContainerElement(e) THEN "yes"
  ELSE "no"

-----------------------------------------------------------------------------
(* Reference registry *)

\* processElement gives up below this depth
DepthLimit == 15

EmptyMap == [r \in {} |-> 0]

\* C26 mutant: every reference is given the same name
RefStr_Same(n) == "ref_1"

\* "ref_" + n
RefStr(n) == "ref_" \o ToString(n)

\* the N of "ref_N" (-1 for any other string)
RefNum(r) ==
  IF Len(r) > 4 /\ SubSeq(r, 1, 4) = "ref_" /\ AllDigits(SubSeq(r, 5, Len(r)))
  THEN StrToNat(SubSeq(r, 5, Len(r)))
  ELSE -1

\* weakRef.deref(): the element, or 0 (undefined) once it has been collected
Deref(e) == IF collected[e] THEN 0 ELSE e

\* C1 mutant: the scan finds nothing, so every pass mints
FindExistingRef_NoScan(map, e) == ""

\* C5 mutant: the scan answers with the first entry, whatever its element
FindExistingRef_AnyEntry(map, e) ==
  IF DOMAIN map = {} THEN ""
  ELSE CHOOSE r \in DOMAIN map : \A q \in DOMAIN map : RefNum(r) <= RefNum(q)

\* the scan of processElement over the map: the first reference whose handle
\* derefs to e, "" when none does; for-in visits the keys in insertion order
FindExistingRef(map, e) ==
  LET hits == {r \in DOMAIN map : Deref(map[r]) = e}
  IN IF hits = {} THEN ""
     ELSE CHOOSE r \in hits : \A q \in hits : RefNum(r) <= RefNum(q)

\* C20 mutant: injecting the script again starts an empty registry
InitMap_Fresh(has, map) == EmptyMap

\* the initialisation at the head of the snapshot script
InitMap(has, map) == IF ~has THEN EmptyMap ELSE map

\* C6 mutant: injecting the script again starts the counter over
InitCounter_Reset(c) == 0

InitCounter(c) == IF c = 0 THEN 0 ELSE c

\* C28 mutant: the sweep deletes every entry
Sweep_All(map) == EmptyMap

\* C2 mutant: the sweep also deletes the entries of detached elements
Sweep_Detached(map) ==
  [r \in {q \in DOMAIN map : Deref(map[q]) # 0 /\ InDocument(map[q])} |-> map[r]]

\* C4 mutant: no sweep
Sweep_None(map) == map

\* the sweep after a pass: entries whose handle no longer derefs are deleted
Sweep(map) == [r \in {q \in DOMAIN map : Deref(map[q]) # 0} |-> map[r]]

-----------------------------------------------------------------------------
(* Snapshot script: traversal and serialisation *)

\* one line of the tree
Yaml(e, depth, role, name, ref) ==
  LET n2 == Substring0(CollapseSpace(name), 100)
  IN Indent(depth) \o "- " \o role
     \o (IF name # "" THEN " \"" \o EscapeQuotes(n2) \o "\"" ELSE "")
     \o " [ref=" \o ref \o "]"
     \o (IF El(e).id # "" THEN " id=\"" \o El(e).id \o "\"" ELSE "")
     \o (IF Truthy(El(e).href) THEN " href=\"" \o El(e).href \o "\"" ELSE "")
     \o (IF Truthy(El(e).type) THEN " type=\"" \o El(e).type \o "\"" ELSE "")
     \o (IF Truthy(El(e).placeholder)
         THEN " placeholder=\"" \o El(e).placeholder \o "\"" ELSE "")

\* the included branch of processElement: reuse or mint the reference, push
\* the line
Emit(st, e, depth) ==
  LET found == FindExistingRef(st.map, e)
      ref == IF found # "" THEN found ELSE RefStr(st.counter + 1)
      role == getRole(e)
      name == getCleanName(e)
  IN [st EXCEPT
        !.map = IF found # "" THEN st.map
                ELSE [r \in DOMAIN st.map \cup {ref} |->
                        IF r = ref THEN e ELSE st.map[r]],
        !.counter = IF found # "" THEN st.counter ELSE st.counter + 1,
        !.minted = IF found # "" THEN st.minted ELSE Append(st.minted, [ref |-> ref, el |-> e]),
        !.lines = Append(st.lines,
                    [el |-> e, depth |-> depth, ref |-> ref, role |-> role,
                     name |-> name, isNew |-> found = "",
                     line |-> Yaml(e, depth, role, name, ref)])]

\* C18 mutant: the depth advances below an excluded parent too
ChildDepth_Always(depth, actuallyInclude) == depth + 1

\* the depth at which the children of e are processed
ChildDepth(depth, actuallyInclude) == IF actuallyInclude THEN depth + 1 ELSE depth

RECURSIVE processElement(_, _, _)
\* processElement over the work list stack of <<element, depth>> still to
\* visit, in document order; st.fault is set when a call throws, st.calls
\* lists the calls made (history)
processElement(stack, st, filter) ==
  IF stack = <<>> \/ st.fault THEN st
  ELSE
    LET e == stack[1][1]
        depth == stack[1][2]
        rest == Tail(stack)
        st1 == [st EXCEPT !.calls = Append(@, [el |-> e, depth |-> depth])]
    IN IF depth > DepthLimit THEN processElement(rest, st1, filter)
       ELSE
         LET shouldInclude == shouldIncludeElement(e, filter)
             actuallyInclude == shouldInclude = "yes" \/ depth = 0
         IN IF shouldInclude = "throw" \/ (actuallyInclude /\ NameThrows(e))
            THEN [st1 EXCEPT !.fault = TRUE]
            ELSE
              LET st2 == IF actuallyInclude THEN Emit(st1, e, depth) ELSE st1
                  kids == SetToSeq(Children(e))
                  below == IF depth < DepthLimit
                           THEN [i \in 1..Len(kids) |->
                                   <<kids[i], ChildDepth(depth, actuallyInclude)>>]
                           ELSE <<>>
              IN processElement(below \o rest, st2, filter)

\* C22 mutant: the pattern stops at the role
IsBareGeneric_AnyGeneric(line) ==
  LET t == TrimLeft(line)
      pre == "- generic "
  IN Len(t) >= Len(pre) /\ SubSeq(t, 1, Len(pre)) = pre

\* /^\s*- generic \[ref=ref_\d+\]$/.test(line)
IsBareGeneric(line) ==
  LET t == TrimLeft(line)
      pre == "- generic [ref=ref_"
  IN /\ Len(t) > Len(pre) + 1
     /\ SubSeq(t, 1, Len(pre)) = pre
     /\ CharAt(t, Len(t)) = "]"
     /\ AllDigits(SubSeq(t, Len(pre) + 1, Len(t) - 1))

\* the post-filter: is the line kept
Kept(line) == ~IsBareGeneric(line)

RECURSIVE Join(_)
\* lines.join("\n")
Join(lines) ==
  IF Len(lines) = 0 THEN ""
  ELSE IF Len(lines) = 1 THEN lines[1]
  ELSE lines[1] \o "\n" \o Join(Tail(lines))

\* the whole pass from the current state
Pass(filter) ==
  processElement(<<<<Root, 0>>>>,
                 [map |-> elementMap, counter |-> refCounter, minted |-> minted,
                  lines |-> <<>>, fault |-> FALSE, calls |-> <<>>],
                 filter)

\* C8 mutant: a fault returns what was collected so far
SnapshotReturn_Partial(st) ==
  [op |-> "snapshot", thrown |-> FALSE,
   pageContent |-> Join(SelectSeq([i \in 1..Len(st.lines) |-> st.lines[i].line],
                                  Kept)),
   viewport |-> [width |-> Doc.innerWidth, height |-> Doc.innerHeight]]

\* what __generateAccessibilityTree hands back: the result, or the one
\* wrapped error it throws
SnapshotReturn(st) ==
  IF st.fault
  THEN [op |-> "snapshot", thrown |-> TRUE,
        message |-> "Error generating accessibility tree: not a valid selector"]
  ELSE [op |-> "snapshot", thrown |-> FALSE,
        pageContent |-> Join(SelectSeq([i \in 1..Len(st.lines) |-> st.lines[i].line],
                                       Kept)),
        viewport |-> [width |-> Doc.innerWidth, height |-> Doc.innerHeight]]

Filters == {Null, "all", "interactive"}

-----------------------------------------------------------------------------
(* Initial state *)

\* the value a control starts with
InitialValue(e) ==
  IF El(e).valueAttr # Null THEN El(e).valueAttr
  ELSE IF El(e).tag = "input" /\ El(e).type \in {"checkbox", "radio"} THEN "on"
  ELSE IF El(e).tag = "input" /\ El(e).type = "range" THEN "50"
  ELSE ""

InitialSelectedIndex(e) ==
  LET opts == El(e).options
      declared == {i \in 1..Len(opts) : opts[i].selected}
  IN IF declared # {} THEN (CHOOSE i \in declared : \A j \in declared : i >= j) - 1
     ELSE IF Len(opts) > 0 THEN 0 ELSE -1

NoCall ==
  [ref |-> "", el |-> 0, steps |-> 0,
   prev |-> [t |-> "none", b |-> FALSE, s |-> "", n |-> 0],
   v |-> [t |-> "none", b |-> FALSE, s |-> "", n |-> 0]]
NoRet == [op |-> "none"]

\* the snapshot script has run to its end; the function expression it
\* consists of yields no value
Injected == [op |-> "inject"]

\* The driver makes one call at a time and reads its result before anything
\* else happens: no result is pending.
Quiet == ret = NoRet

\* the result of a call goes to the driver, or to the listener that made it
ToCaller(result) == IF pc = "idle" THEN result ELSE NoRet

\* A step taken while a setValue call is in flight is a step of one of the
\* listeners the call runs; the call counts them.
MayStep == pc = "idle" \/ call.steps < MaxListenerSteps
Stepped == IF pc = "idle" THEN call ELSE [call EXCEPT !.steps = @ + 1]
NoSnap ==
  [taken |-> FALSE, filter |-> Null, fault |-> FALSE, lines |-> <<>>,
   calls |-> <<>>, base |-> 0]

Init ==
  /\ doc \in Pages
  /\ linked = [e \in Elems |-> TRUE]
  /\ collected = [e \in Elems |-> FALSE]
  /\ ctl = [e \in Elems |->
             [value |-> InitialValue(e), checked |-> El(e).checkedAttr,
              selectedIndex |-> InitialSelectedIndex(e)]]
  /\ scrollY = 0
  /\ scrollTarget = -1
  /\ hasMap = FALSE
  /\ elementMap = EmptyMap
  /\ refCounter = 0
  /\ pc = "idle"
  /\ call = NoCall
  /\ ret = NoRet
  /\ snap = NoSnap
  /\ minted = <<>>
  /\ events = <<>>

-----------------------------------------------------------------------------
(* What the page and the engine do on their own *)

\* the page script removes a node from its parent
Detach(e) ==
  /\ Quiet /\ MayStep /\ call' = Stepped
  /\ e \in Doc.volatile /\ linked[e] /\ ~collected[e]
  /\ linked' = [linked EXCEPT ![e] = FALSE]
  /\ UNCHANGED <<ret, snap, events>>
  /\ UNCHANGED <<doc, collected, ctl, scrollY, scrollTarget, hasMap, elementMap,
                 refCounter, pc, minted>>

\* the page script puts a node it kept back under its parent
Attach(e) ==
  /\ Quiet /\ MayStep /\ call' = Stepped
  /\ e # Root /\ ~linked[e] /\ ~collected[e] /\ ~collected[El(e).parent]
  /\ linked' = [linked EXCEPT ![e] = TRUE]
  /\ UNCHANGED <<ret, snap, events>>
  /\ UNCHANGED <<doc, collected, ctl, scrollY, scrollTarget, hasMap,
                 elementMap, refCounter, pc, minted>>

\* the engine collects a removed tree that nothing holds any longer (the
\* setValue call in flight holds its element)
Collect(e) ==
  /\ Quiet /\ MayStep /\ call' = Stepped
  /\ e # Root /\ ~linked[e] /\ ~collected[e]
  /\ pc = "idle" \/ call.el \notin Subtree(e)
  /\ collected' = [c \in Elems |-> collected[c] \/ c \in Subtree(e)]
  /\ UNCHANGED <<ret, snap, events>>
  /\ UNCHANGED <<doc, linked, ctl, scrollY, scrollTarget, hasMap,
                 elementMap, refCounter, pc, minted>>

\* a smooth scroll started by setValue arrives
SmoothScrollArrive ==
  /\ Quiet /\ pc = "idle" /\ UNCHANGED call
  /\ scrollTarget >= 0
  /\ scrollY' = scrollTarget
  /\ scrollTarget' = -1
  /\ UNCHANGED <<ret, snap, events>>
  /\ UNCHANGED <<doc, linked, collected, ctl, hasMap, elementMap,
                 refCounter, pc, minted>>

-----------------------------------------------------------------------------
(* The snapshot script *)

\* the script is injected (again): map and counter are created when absent
Inject ==
  /\ Quiet /\ pc = "idle"
  /\ hasMap' = TRUE
  /\ elementMap' = InitMap(hasMap, elementMap)
  /\ refCounter' = InitCounter(refCounter)
  /\ ret' = Injected
  /\ UNCHANGED <<doc, linked, collected, ctl, scrollY, scrollTarget, pc,
                 call, snap, minted, events>>

\* window.__generateAccessibilityTree(filterType)
GenerateSnapshot(filter) ==
  /\ Quiet /\ MayStep /\ call' = Stepped
  /\ hasMap
  /\ \E st \in {Pass(filter)} :
        /\ st.counter <= Cardinality(Elems) + MaxRemint
        /\ elementMap' = IF st.fault THEN st.map ELSE Sweep(st.map)
        /\ refCounter' = st.counter
        /\ minted' = st.minted
        /\ ret' = ToCaller(SnapshotReturn(st))
        /\ snap' = IF pc # "idle" THEN NoSnap ELSE
                   [taken |-> TRUE, filter |-> filter, fault |-> st.fault,
                    calls |-> st.calls, base |-> Len(minted),
                    lines |-> [i \in 1..Len(st.lines) |->
                                 [el |-> st.lines[i].el, depth |-> st.lines[i].depth,
                                  ref |-> st.lines[i].ref, role |-> st.lines[i].role,
                                  name |-> st.lines[i].name,
                                  isNew |-> st.lines[i].isNew,
                                  line |-> st.lines[i].line,
                                  kept |-> ~st.fault /\ Kept(st.lines[i].line)]]]
  /\ UNCHANGED <<doc, linked, collected, ctl, scrollY, scrollTarget,
                 hasMap, pc, events>>

-----------------------------------------------------------------------------
(* Resolution of a reference, as both the locator and the value setter do it *)

\* property names every object inherits: map[key] is then a function of
\* Object.prototype, not a handle
ProtoKeys == {"constructor"}

\* the reference strings a caller passes: every reference minted so far, the
\* one that would be minted next, and a name every object inherits
RefInputs == {RefStr(n) : n \in 1..(refCounter + 1)} \cup ProtoKeys

\* window.__claudeElementMap && window.__claudeElementMap[ref]:
\* "handle", "inherited" (truthy, but no handle) or "none" (falsy)
MapGet(ref) ==
  IF ~hasMap THEN "none"
  ELSE IF ref \in DOMAIN elementMap THEN "handle"
  ELSE IF ref \in ProtoKeys THEN "inherited"
  ELSE "none"

\* C19 mutant: a failed lookup clears the registry
MapDelete_All(map, ref) == EmptyMap

\* delete window.__claudeElementMap[ref]
MapDelete(map, ref) == [r \in DOMAIN map \ {ref} |-> map[r]]

\* C27 mutant: the locator reports a detached element as not found but keeps
\* its entry
LocateResolve_Keep(ref) ==
  LET got == MapGet(ref)
      target == IF got = "handle" THEN Deref(elementMap[ref]) ELSE 0
      gone == got = "handle" /\ (target = 0 \/ ~InDocument(target))
  IN [throws |-> got = "inherited",
      el |-> IF got = "handle" /\ ~gone THEN target ELSE 0,
      map |-> elementMap]

\* lines 13-24 of the locator: the element found (0: none), the map
\* afterwards, and whether weakRef.deref() threw a TypeError
LocateResolve(ref) ==
  LET got == MapGet(ref)
      target == IF got = "handle" THEN Deref(elementMap[ref]) ELSE 0
      gone == got = "handle" /\ (target = 0 \/ ~InDocument(target))
  IN [throws |-> got = "inherited",
      el |-> IF got = "handle" /\ ~gone THEN target ELSE 0,
      map |-> IF gone THEN MapDelete(elementMap, ref) ELSE elementMap]

\* lines 6-17 of the value setter: the same steps
FormResolve(ref) ==
  LET got == MapGet(ref)
      element == IF got = "handle" THEN Deref(elementMap[ref]) ELSE 0
      gone == got = "handle" /\ (element = 0 \/ ~InDocument(element))
  IN [throws |-> got = "inherited",
      el |-> IF got = "handle" /\ ~gone THEN element ELSE 0,
      map |-> IF gone THEN MapDelete(elementMap, ref) ELSE elementMap]

-----------------------------------------------------------------------------
(* The locator script *)

\* scroll offset that centres e vertically, within what the page can scroll
CenterScroll(e) ==
  Max(0, Min(Doc.height - Doc.innerHeight,
             El(e).y + (El(e).h \div 2) - (Doc.innerHeight \div 2)))

\* an element with display:none has no box: it cannot be scrolled to and its
\* rectangle is all zero
HasBox(e) == El(e).cssDisplay # "none"

\* getBoundingClientRect() once the viewport is at offset sy
RectAt(e, sy) ==
  IF HasBox(e)
  THEN [left |-> El(e).x, right |-> El(e).x + El(e).w,
        top |-> El(e).y - sy, bottom |-> El(e).y - sy + El(e).h,
        width |-> El(e).w, height |-> El(e).h]
  ELSE [left |-> 0, right |-> 0, top |-> 0, bottom |-> 0, width |-> 0, height |-> 0]

RECURSIVE DotJoin(_)
\* className.split(' ').filter(c => c).join('.') (of a class name that
\* neither starts nor ends with a blank)
DotJoin(c) ==
  IF Len(c) = 0 THEN ""
  ELSE IF CharAt(c, 1) = " "
    THEN "." \o DotJoin(TrimLeft(c))
  ELSE CharAt(c, 1) \o DotJoin(SubSeq(c, 2, Len(c)))

\* tag + #id + .class.list
ElementInfo(e) ==
  El(e).tag
  \o (IF El(e).id # "" THEN "#" \o El(e).id ELSE "")
  \o (IF El(e).className # "" THEN "." \o DotJoin(Trim(El(e).className)) ELSE "")

OrEmpty(a) == IF Truthy(a) THEN a ELSE ""

\* C3 mutant: the not-found message leaves the reference out
LocateNotFound_Unnamed(ref) ==
  [op |-> "locate", success |-> FALSE, action |-> "get_element",
   message |-> "No element found. The element may have been removed from the page."]

LocateNotFound(ref) ==
  [op |-> "locate", success |-> FALSE, action |-> "get_element",
   message |-> "No element found with reference: \"" \o ref
               \o "\". The element may have been removed from the page."]

LocateCaught ==
  [op |-> "locate", success |-> FALSE, action |-> "get_element",
   message |-> "Error finding element by reference: weakRef.deref is not a function"]

LocateFound(ref, e, sy) ==
  LET rect == RectAt(e, sy)
  IN [op |-> "locate", success |-> TRUE,
      coordinates |-> <<rect.left + (rect.width \div 2),
                        rect.top + (rect.height \div 2)>>,
      elementInfo |-> ElementInfo(e),
      elementRef |-> ref,
      rect |-> rect,
      attributes |-> [type |-> OrEmpty(El(e).type), role |-> OrEmpty(El(e).role),
                      ariaLabel |-> OrEmpty(El(e).ariaLabel),
                      text |-> Substring0(TextContent(e), 100)],
      isVisible |-> rect.width > 0 /\ rect.height > 0,
      isInteractable |-> /\ ~El(e).disabled
                         /\ El(e).styleDisplay # "none"
                         /\ El(e).styleVisibility # "hidden",
      target |-> e]

\* the locator script, called with a reference string
Locate(ref) ==
  \E r \in {LocateResolve(ref)} :
    /\ Quiet /\ MayStep /\ call' = Stepped
    /\ elementMap' = r.map
    /\ IF r.throws THEN
         /\ ret' = ToCaller(LocateCaught)
         /\ UNCHANGED <<scrollY, scrollTarget>>
       ELSE IF r.el = 0 THEN
         /\ ret' = ToCaller(LocateNotFound(ref))
         /\ UNCHANGED <<scrollY, scrollTarget>>
       ELSE
         \E sy \in {IF HasBox(r.el) THEN CenterScroll(r.el) ELSE scrollY} :
           /\ scrollY' = sy
           /\ scrollTarget' = IF HasBox(r.el) THEN -1 ELSE scrollTarget
           /\ ret' = ToCaller(LocateFound(ref, r.el, sy))
    /\ UNCHANGED <<doc, linked, collected, ctl, hasMap, refCounter, pc,
                   minted, snap, events>>

-----------------------------------------------------------------------------
(* The value setter script *)

\* String(v)
String(v) ==
  IF v.t = "bool" THEN (IF v.b THEN "true" ELSE "false")
  ELSE IF v.t = "num" THEN ToString(v.n)
  ELSE v.s

\* a decimal integer literal
IsIntStr(s) ==
  \/ AllDigits(s)
  \/ Len(s) > 1 /\ CharAt(s, 1) = "-" /\ AllDigits(SubSeq(s, 2, Len(s)))

IntOfStr(s) ==
  IF CharAt(s, 1) = "-" THEN 0 - StrToNat(SubSeq(s, 2, Len(s))) ELSE StrToNat(s)

\* Number(v), over booleans, integers and strings: nan, or the number n
Number(v) ==
  IF v.t = "bool" THEN [nan |-> FALSE, n |-> IF v.b THEN 1 ELSE 0]
  ELSE IF v.t = "num" THEN [nan |-> FALSE, n |-> v.n]
  ELSE IF Trim(v.s) = "" THEN [nan |-> FALSE, n |-> 0]
  ELSE IF IsIntStr(Trim(v.s)) THEN [nan |-> FALSE, n |-> IntOfStr(Trim(v.s))]
  ELSE [nan |-> TRUE, n |-> 0]

InputTypes ==
  {"hidden", "text", "search", "tel", "url", "email", "password", "date", "month",
   "week", "time", "datetime-local", "number", "range", "color", "checkbox",
   "radio", "file", "submit", "image", "reset", "button"}

\* element.type of an input: the type attribute when it names a known type
TypeProp(e) == IF El(e).type \in InputTypes THEN El(e).type ELSE "text"

IsInput(e) == El(e).tag = "input"

\* C24 mutant: the branch for any other input is tested first
Kind_TextFirst(e) ==
  IF IsInput(e) \/ El(e).tag = "textarea" THEN "text"
  ELSE IF El(e).tag = "select" THEN "select"
  ELSE "unsupported"

\* the branch of the value setter that handles the element, in its order
Kind(e) ==
  IF El(e).tag = "select" THEN "select"
  ELSE IF IsInput(e) /\ TypeProp(e) = "checkbox" THEN "checkbox"
  ELSE IF IsInput(e) /\ TypeProp(e) = "radio" THEN "radio"
  ELSE IF IsInput(e) /\ TypeProp(e) \in {"date", "time", "datetime-local", "month", "week"}
    THEN "date"
  ELSE IF IsInput(e) /\ TypeProp(e) = "range" THEN "range"
  ELSE IF IsInput(e) /\ TypeProp(e) = "number" THEN "number"
  ELSE IF IsInput(e) \/ El(e).tag = "textarea" THEN "text"
  ELSE "unsupported"

\* option.text: the option's text, stripped and with white space collapsed
OptionText(o) == CollapseSpace(Trim(o.text))

\* C13 mutant: the loop compares the option's value only
FindOption_ValueOnly(e, valueStr) ==
  LET opts == El(e).options
      hits == {i \in 1..Len(opts) : opts[i].value = valueStr}
  IN IF hits = {} THEN 0 ELSE CHOOSE i \in hits : \A j \in hits : i <= j

\* the loop over the options: the first index (from 1) whose value or text is
\* valueStr, 0 when there is none
FindOption(e, valueStr) ==
  LET opts == El(e).options
      hits == {i \in 1..Len(opts) :
                 opts[i].value = valueStr \/ OptionText(opts[i]) = valueStr}
  IN IF hits = {} THEN 0 ELSE CHOOSE i \in hits : \A j \in hits : i <= j

RECURSIVE OptionList(_)
\* options.map(o => `"${o.text}" (value: "${o.value}")`).join(', ')
OptionList(opts) ==
  IF Len(opts) = 0 THEN ""
  ELSE "\"" \o OptionText(opts[1]) \o "\" (value: \"" \o opts[1].value \o "\")"
       \o (IF Len(opts) > 1 THEN ", " ELSE "") \o OptionList(Tail(opts))

RECURSIVE Shaped(_, _)
\* does the string have the shape the date-like type requires
Shaped(s, shape) ==
  IF Len(shape) = 0 THEN Len(s) = 0
  ELSE /\ Len(s) > 0
       /\ IF CharAt(shape, 1) = "d" THEN CharAt(s, 1) \in Digits
          ELSE CharAt(s, 1) = CharAt(shape, 1)
       /\ Shaped(SubSeq(s, 2, Len(s)), SubSeq(shape, 2, Len(shape)))

DateShape(type) ==
  CASE type = "date" -> "dddd-dd-dd"
    [] type = "month" -> "dddd-dd"
    [] type = "week" -> "dddd-Wdd"
    [] type = "time" -> "dd:dd"
    [] OTHER -> "dddd-dd-ddTdd:dd"

\* C14 mutant: a range control keeps whatever number it is given
Sanitize_NoClamp(e, str) ==
  LET k == Kind(e)
  IN IF k = "date" THEN (IF Shaped(str, DateShape(TypeProp(e))) THEN str ELSE "")
     ELSE IF k = "number" THEN (IF IsIntStr(str) THEN str ELSE "")
     ELSE IF k = "range" THEN (IF IsIntStr(str) THEN str ELSE "50")
     ELSE str

\* the value sanitisation the control applies to an assigned string (a range
\* without min and max attributes clamps to 0..100)
Sanitize(e, str) ==
  LET k == Kind(e)
  IN IF k = "date" THEN (IF Shaped(str, DateShape(TypeProp(e))) THEN str ELSE "")
     ELSE IF k = "number" THEN (IF IsIntStr(str) THEN str ELSE "")
     ELSE IF k = "range"
       THEN (IF IsIntStr(str) THEN ToString(Max(0, Min(100, IntOfStr(str)))) ELSE "50")
     ELSE str

\* input types setSelectionRange applies to; on any other input it throws
Selectable(e) ==
  El(e).tag = "textarea" \/ TypeProp(e) \in {"text", "search", "url", "tel", "password"}

\* assigning a non-empty value to a file input throws
AssignThrows(e, str) == IsInput(e) /\ TypeProp(e) = "file" /\ str # ""

\* radio buttons of the same group in the same tree
GroupOf(e) ==
  {r \in Elems : /\ r # e /\ IsInput(r) /\ TypeProp(r) = "radio"
                 /\ El(e).name # "" /\ El(r).name = El(e).name
                 /\ InDocument(r) = InDocument(e)}

\* what the branch reads as previous_value and new_value: element.checked
\* of a check box or radio button, element.value of any other control
CurrentValue(e) ==
  IF Kind(e) \in {"checkbox", "radio"} THEN JBool(ctl[e].checked)
  ELSE JStr(ValueOf(e))

\* the failure a branch returns before it assigns anything, "" when the
\* input passes
InvalidMessage(e, v) ==
  LET k == Kind(e)
  IN IF k = "select" /\ FindOption(e, String(v)) = 0
       THEN "Option \"" \o String(v) \o "\" not found. Available options: "
            \o OptionList(El(e).options)
     ELSE IF k = "checkbox" /\ v.t # "bool"
       THEN "Checkbox requires a boolean value (true/false)"
     ELSE IF k = "range" /\ Number(v).nan
       THEN "Range input requires a numeric value"
     ELSE IF k = "number" /\ Number(v).nan /\ v # JStr("")
       THEN "Number input requires a numeric value"
     ELSE IF k = "unsupported"
       THEN "Element type \"" \o ToUpperCase(El(e).tag)
            \o "\" is not a supported form input"
     ELSE ""

\* C12 mutant: the checkbox branch checks the box whatever the value
Assigned_AlwaysChecked(e, v) ==
  LET k == Kind(e)
  IN IF k = "select"
       THEN [ctl EXCEPT ![e].selectedIndex = FindOption(e, String(v)) - 1]
     ELSE IF k \in {"checkbox", "radio"} THEN [ctl EXCEPT ![e].checked = TRUE]
     ELSE IF k = "range"
       THEN [ctl EXCEPT ![e].value = Sanitize(e, ToString(Number(v).n))]
     ELSE [ctl EXCEPT ![e].value = Sanitize(e, String(v))]

\* the control state after the assignment of the branch
Assigned(e, v) ==
  LET k == Kind(e)
  IN IF k = "select"
       THEN [ctl EXCEPT ![e].selectedIndex = FindOption(e, String(v)) - 1]
     ELSE IF k = "checkbox" THEN [ctl EXCEPT ![e].checked = v.b]
     ELSE IF k = "radio"
       THEN [c \in Elems |->
               IF c = e THEN [ctl[c] EXCEPT !.checked = TRUE]
               ELSE IF c \in GroupOf(e) THEN [ctl[c] EXCEPT !.checked = FALSE]
               ELSE ctl[c]]
     ELSE IF k = "range"
       THEN [ctl EXCEPT ![e].value = Sanitize(e, ToString(Number(v).n))]
     ELSE [ctl EXCEPT ![e].value = Sanitize(e, String(v))]

\* C9 mutant: a failure without its action field
FormFailure_NoAction(msg) ==
  [op |-> "setValue", success |-> FALSE, message |-> msg]

FormFailure(msg) ==
  [op |-> "setValue", success |-> FALSE, action |-> "form_input", message |-> msg]

FormNotFound(ref) ==
  FormFailure("No element found with reference: \"" \o ref
              \o "\". The element may have been removed from the page.")

FormCaught(what) == FormFailure("Error setting form value: " \o what)

\* element_type of the success envelope
ElementType(e) ==
  LET k == Kind(e)
  IN IF k \in {"select", "checkbox", "radio", "range", "number"} THEN k
     ELSE IF k = "date" THEN TypeProp(e)
     ELSE IF El(e).tag = "textarea" THEN "textarea"
     ELSE TypeProp(e)

\* the message of the success envelope of each branch (a range input of
\* the model has no min and no max attribute)
SuccessMessage(e, v) ==
  LET k == Kind(e)
  IN IF k = "select" THEN "Selected option \"" \o String(v) \o "\" in dropdown"
     ELSE IF k = "checkbox"
       THEN "Checkbox " \o (IF ctl[e].checked THEN "checked" ELSE "unchecked")
     ELSE IF k = "radio"
       THEN "Radio button selected"
            \o (IF El(e).name # "" THEN " in group \"" \o El(e).name \o "\"" ELSE "")
     ELSE IF k = "date" THEN "Set " \o TypeProp(e) \o " to \"" \o ValueOf(e) \o "\""
     ELSE IF k = "range" THEN "Set range to " \o ValueOf(e) \o " (min: , max: )"
     ELSE IF k = "number" THEN "Set number input to " \o ValueOf(e)
     ELSE "Set " \o ElementType(e) \o " value to \"" \o ValueOf(e) \o "\""

\* the success envelope, built when the call returns
FormSuccess(ref, e, prev, v) ==
  [op |-> "setValue", success |-> TRUE, action |-> "form_input", ref |-> ref,
   element_type |-> ElementType(e),
   previous_value |-> prev,
   new_value |-> CurrentValue(e),
   message |-> SuccessMessage(e, v)]

\* C16 mutant: the branch focuses before it assigns
AssignThenFocus_FocusFirst == <<"focus", "assign">>

\* every branch assigns first and calls element.focus() next
AssignThenFocus == <<"assign", "focus">>

\* setValue up to and including element.focus(): resolve, start the smooth
\* scroll, validate, assign, focus.  Focus listeners run before the next step.
SetValueBegin(ref, v) ==
  /\ Quiet /\ pc = "idle"
  /\ \E r \in {FormResolve(ref)} :
       /\ elementMap' = r.map
       /\ IF r.throws \/ r.el = 0 THEN
            /\ ret' = IF r.throws THEN FormCaught("weakRef.deref is not a function")
                       ELSE FormNotFound(ref)
            /\ events' = <<>>
            /\ UNCHANGED <<ctl, scrollTarget, pc, call>>
          ELSE
            /\ scrollTarget' = IF HasBox(r.el) /\ CenterScroll(r.el) # scrollY
                                THEN CenterScroll(r.el) ELSE scrollTarget
            /\ IF InvalidMessage(r.el, v) # "" THEN
                 /\ ret' = FormFailure(InvalidMessage(r.el, v))
                 /\ events' = <<>>
                 /\ UNCHANGED <<ctl, pc, call>>
               ELSE IF AssignThrows(r.el, String(v)) THEN
                 /\ ret' = FormCaught("InvalidStateError")
                 /\ events' = <<>>
                 /\ UNCHANGED <<ctl, pc, call>>
               ELSE
                 /\ ctl' = Assigned(r.el, v)
                 /\ events' = AssignThenFocus
                 /\ pc' = "focus"
                 /\ call' = [ref |-> ref, el |-> r.el, steps |-> 0,
                             prev |-> CurrentValue(r.el), v |-> v]
                 /\ ret' = NoRet
  /\ UNCHANGED snap
  /\ UNCHANGED <<doc, linked, collected, scrollY, hasMap, refCounter, minted>>

\* setValue called by a listener of the call in flight.  The inner call runs
\* to its end within the listener; its assignment is logged as "nested".
ListenerSetValue(ref, v) ==
  /\ Quiet /\ pc # "idle" /\ MayStep /\ call' = Stepped
  /\ \E r \in {FormResolve(ref)} :
       /\ elementMap' = r.map
       /\ IF r.throws \/ r.el = 0 THEN UNCHANGED <<ctl, scrollTarget, events>>
          ELSE
            /\ scrollTarget' = IF HasBox(r.el) /\ CenterScroll(r.el) # scrollY
                                THEN CenterScroll(r.el) ELSE scrollTarget
            /\ IF InvalidMessage(r.el, v) # "" \/ AssignThrows(r.el, String(v))
               THEN UNCHANGED <<ctl, events>>
               ELSE /\ ctl' = Assigned(r.el, v)
                    /\ events' = Append(events, "nested")
  /\ UNCHANGED <<ret, snap>>
  /\ UNCHANGED <<doc, linked, collected, scrollY, hasMap, refCounter, pc, minted>>

\* after focus(): the text branch sets the caret, which throws on an input
\* without a selection; then the change event is dispatched
SetValueChange ==
  /\ pc = "focus"
  /\ IF Kind(call.el) = "text" /\ ~Selectable(call.el) THEN
       /\ ret' = FormCaught("InvalidStateError")
       /\ pc' = "idle"
       /\ call' = NoCall
       /\ UNCHANGED events
     ELSE
       /\ events' = Append(events, "change")
       /\ pc' = "change"
       /\ ret' = NoRet
       /\ UNCHANGED call
  /\ UNCHANGED snap
  /\ UNCHANGED <<doc, linked, collected, ctl, scrollY, scrollTarget,
                 hasMap, elementMap, refCounter, minted>>

\* the change listeners have run: the input event is dispatched
SetValueInput ==
  /\ pc = "change"
  /\ events' = Append(events, "input")
  /\ pc' = "input"
  /\ ret' = NoRet
  /\ UNCHANGED snap
  /\ UNCHANGED <<doc, linked, collected, ctl, scrollY, scrollTarget,
                 hasMap, elementMap, refCounter, call, minted>>

\* C15 mutant: the call resolves its reference once more before it returns
SetValueReturn_ResolveAgain ==
  /\ pc = "input"
  /\ ret' = FormSuccess(call.ref, call.el, call.prev, call.v)
  /\ pc' = "idle"
  /\ call' = NoCall
  /\ elementMap' = FormResolve(call.ref).map
  /\ UNCHANGED snap
  /\ UNCHANGED <<doc, linked, collected, ctl, scrollY, scrollTarget,
                 hasMap, refCounter, minted, events>>

\* the input listeners have run: the call returns its success envelope
SetValueReturn ==
  /\ pc = "input"
  /\ ret' = FormSuccess(call.ref, call.el, call.prev, call.v)
  /\ pc' = "idle"
  /\ call' = NoCall
  /\ UNCHANGED snap
  /\ UNCHANGED <<doc, linked, collected, ctl, scrollY, scrollTarget,
                 hasMap, elementMap, refCounter, minted, events>>

\* the driver has read the result of its call
Consume ==
  /\ ret # NoRet
  /\ ret' = NoRet
  /\ snap' = NoSnap
  /\ events' = <<>>
  /\ UNCHANGED <<doc, linked, collected, ctl, scrollY, scrollTarget, hasMap,
                 elementMap, refCounter, pc, call, minted>>

Next ==
  \/ \E e \in Elems : Detach(e)
  \/ \E e \in Elems : Attach(e)
  \/ \E e \in Elems : Collect(e)
  \/ SmoothScrollArrive
  \/ Inject
  \/ \E f \in Filters : GenerateSnapshot(f)
  \/ \E ref \in RefInputs : Locate(ref)
  \/ \E ref \in RefInputs, v \in Doc.values : SetValueBegin(ref, v)
  \/ \E ref \in RefInputs, v \in Doc.values : ListenerSetValue(ref, v)
  \/ SetValueChange
  \/ SetValueInput
  \/ SetValueReturn
  \/ Consume

Spec == Init /\ [][Next]_vars

-----------------------------------------------------------------------------
(* Properties of the reference registry and the snapshot *)

\* the driver's snapshot call has just returned a result
PassDone == snap.taken /\ ~snap.fault

\* the element a reference stands for is not a live attached element
StaleRef(ref) ==
  \/ ~hasMap
  \/ ref \notin DOMAIN elementMap
  \/ collected[elementMap[ref]]
  \/ ~InDocument(elementMap[ref])

\* C1: identity stability.  Right after a pass, with the DOM as it is, a
\* second pass under any filter gives every element both passes include the
\* reference the first pass gave it, and mints none for it.
C1_IdentityStability ==
  PassDone =>
    \A f \in Filters : \A second \in {Pass(f)} :
      \A i \in DOMAIN snap.lines, j \in DOMAIN second.lines :
        snap.lines[i].el = second.lines[j].el =>
          /\ second.lines[j].ref = snap.lines[i].ref
          /\ ~second.lines[j].isNew

\* C1 witness: a pass over several elements that minted nothing, every
\* reference being the one an earlier pass allocated
C1_SecondPassReused ==
  /\ PassDone
  /\ Len(snap.lines) >= 2
  /\ \A i \in DOMAIN snap.lines : ~snap.lines[i].isNew

\* C2 as stated: every line of every pass carries the first reference ever
\* minted for its element, whatever happened in between.
C2_ReuseWhileReachable ==
  snap.taken =>
    \A i \in DOMAIN snap.lines : \A k \in DOMAIN minted :
      minted[k].el = snap.lines[i].el => minted[k].ref = snap.lines[i].ref

\* C2 amended: the entry of an element that is not collected stays in the
\* registry over every step, except a locate or setValue lookup of that
\* reference made while the element is detached, which deletes it; and a pass
\* that includes an element with an entry uses that entry's reference.
C2_ReuseWhileRegistered ==
  [][\A r \in DOMAIN elementMap :
       ~collected'[elementMap[r]] =>
         /\ \/ r \in DOMAIN elementMap' /\ elementMap'[r] = elementMap[r]
            \/ /\ ~InDocument(elementMap[r])
               /\ elementMap' = MapDelete(elementMap, r)
               /\ \/ \E ref \in RefInputs : Locate(ref)
                  \/ \E ref \in RefInputs, v \in Doc.values : SetValueBegin(ref, v)
         /\ (~snap.taken /\ snap'.taken) =>
              \A i \in DOMAIN snap'.lines :
                snap'.lines[i].el = elementMap[r] => snap'.lines[i].ref = r
    ]_vars

\* C2 witness: a pass reused the reference of an element the page can detach
\* while the entry of a detached, uncollected element stayed in the registry
C2_DetachedEntryKept ==
  /\ snap.taken
  /\ \E i \in DOMAIN snap.lines :
       snap.lines[i].el \in Doc.volatile /\ ~snap.lines[i].isNew
  /\ \E r \in DOMAIN elementMap :
       ~collected[elementMap[r]] /\ ~InDocument(elementMap[r])

\* C3: stale reference.  A locate or setValue call of the driver with a
\* reference ref_N that is stale returns success false with a message that
\* quotes the reference, starts no setValue steps and changes no control and
\* no scroll position.
C3_StaleReference ==
  [][\A ref \in RefInputs \ ProtoKeys :
       (pc = "idle" /\ StaleRef(ref)) =>
         /\ Locate(ref) =>
              /\ ret'.op = "locate" /\ ret'.success = FALSE
              /\ Includes(ret'.message, "\"" \o ref \o "\"")
              /\ ref \notin DOMAIN elementMap'
              /\ ctl' = ctl /\ scrollY' = scrollY /\ scrollTarget' = scrollTarget
         /\ \A v \in Doc.values :
              SetValueBegin(ref, v) =>
                /\ ret'.op = "setValue" /\ ret'.success = FALSE
                /\ Includes(ret'.message, "\"" \o ref \o "\"")
                /\ ref \notin DOMAIN elementMap'
                /\ pc' = "idle" /\ events' = <<>>
                /\ ctl' = ctl /\ scrollY' = scrollY /\ scrollTarget' = scrollTarget
    ]_vars

\* C3 witness: locate has answered not-found for the reference of an element
\* that is detached and not collected
C3_DetachedNotFound ==
  \E k \in DOMAIN minted :
    /\ ret = LocateNotFound(minted[k].ref)
    /\ ~InDocument(minted[k].el)
    /\ ~collected[minted[k].el]

\* C4 as stated: after a pass every registry entry refers to an element that
\* is live and attached.
C4_OnlyAttachedEntries ==
  PassDone =>
    \A r \in DOMAIN elementMap :
      ~collected[elementMap[r]] /\ InDocument(elementMap[r])

\* C4 amended: after a pass no registry entry refers to a collected element
\* (the entry of a detached element that is still alive stays).
C4_NoCollectedEntry ==
  PassDone => \A r \in DOMAIN elementMap : ~collected[elementMap[r]]

\* C4 witness: a pass has completed after an element that had a reference was
\* collected
C4_SweptAfterCollect ==
  PassDone /\ \E k \in DOMAIN minted : collected[minted[k].el]

\* C5: no collision.  Right after a pass every reference on a line resolves,
\* the way locate resolves it, to the element of that line, and no two lines
\* carry the same reference.
C5_NoCollision ==
  PassDone =>
    \A i \in DOMAIN snap.lines :
      /\ ~LocateResolve(snap.lines[i].ref).throws
      /\ LocateResolve(snap.lines[i].ref).el = snap.lines[i].el
      /\ \A j \in DOMAIN snap.lines :
           snap.lines[j].ref = snap.lines[i].ref => j = i

\* C5 witness: a pass returned at least three lines
C5_SeveralLines ==
  PassDone /\ Cardinality({i \in DOMAIN snap.lines : snap.lines[i].kept}) >= 3

\* C6: every reference minted in the session is ref_N with N >= 1, and N is
\* greater than the N of every reference minted before it.
C6_MonotoneMint ==
  \A k \in DOMAIN minted :
    /\ RefNum(minted[k].ref) >= 1
    /\ minted[k].ref = RefStr(RefNum(minted[k].ref))
    /\ \A j \in 1..(k - 1) : RefNum(minted[j].ref) < RefNum(minted[k].ref)

\* C6 witness: an element whose entry was deleted has been given a second
\* reference by a later pass
C6_MintedAgain ==
  \E j, k \in DOMAIN minted : j < k /\ minted[j].el = minted[k].el

\* C7 as stated: the content a pass returns is not empty and has the root's
\* line in it.
C7_RootLineReturned ==
  (ret.op = "snapshot" /\ ~ret.thrown) =>
    /\ ret.pageContent # ""
    /\ \E i \in DOMAIN snap.lines : snap.lines[i].el = Root /\ snap.lines[i].kept

\* C8: all or nothing.  A pass that met a fault throws one wrapped error that
\* carries no content; a pass that met none returns the viewport and every
\* line the post-filter keeps.
C8_AllOrNothing ==
  ret.op = "snapshot" =>
    IF snap.fault
    THEN /\ ret.thrown
         /\ DOMAIN ret = {"op", "thrown", "message"}
         /\ SubSeq(ret.message, 1, 37) = "Error generating accessibility tree: "
    ELSE /\ ~ret.thrown
         /\ DOMAIN ret = {"op", "thrown", "pageContent", "viewport"}
         /\ ret.pageContent =
              Join(SelectSeq([i \in 1..Len(snap.lines) |-> snap.lines[i].line], Kept))

\* C8 witness: a pass threw after it had already pushed lines
C8_FaultAfterLines ==
  ret.op = "snapshot" /\ ret.thrown /\ Len(snap.lines) > 0

\* C9: every result of locate and setValue is an envelope with a boolean
\* success, and every failure carries a message and an action.
C9_Envelope ==
  ret.op \in {"locate", "setValue"} =>
    /\ "success" \in DOMAIN ret
    /\ ret.success \in BOOLEAN
    /\ ~ret.success =>
         /\ {"message", "action"} \subseteq DOMAIN ret
         /\ ret.message # ""
         /\ ret.action \in {"get_element", "form_input"}

\* C9 witness: setValue has returned the failure of a fault it caught
C9_CaughtFault ==
  ret = FormCaught("weakRef.deref is not a function")

\* C10 as stated: every line returned under the interactive filter is a line
\* with a name in what the default filter returns for the same DOM (when the
\* default pass returns).
C10_InteractiveLinesNamedByDefault ==
  (PassDone /\ snap.filter = "interactive") =>
    \A d \in {Pass(Null)} :
      \A i \in DOMAIN snap.lines :
        (~d.fault /\ snap.lines[i].kept) =>
          \E j \in DOMAIN d.lines :
            /\ d.lines[j].line = snap.lines[i].line
            /\ Kept(d.lines[j].line)
            /\ d.lines[j].name # ""

\* C10 amended: an element the inclusion test accepts under the interactive
\* filter is accepted under the default filter.
C10_InteractiveAcceptedByDefault ==
  \A e \in Elems :
    shouldIncludeElement(e, "interactive") = "yes" =>
      shouldIncludeElement(e, Null) = "yes"

\* C10 witness: a pass under the interactive filter returned the line of an
\* element other than the root
C10_InteractivePass ==
  /\ PassDone /\ snap.filter = "interactive"
  /\ \E i \in DOMAIN snap.lines : snap.lines[i].el # Root /\ snap.lines[i].kept

\* the lines of the pass that has just completed that belong to element e
LinesOf(e) == {i \in DOMAIN snap.lines : snap.lines[i].el = e}

\* the bounding box of e has no point in common with the viewport rectangle
OutsideViewport(e) ==
  \/ El(e).y - scrollY >= Doc.innerHeight
  \/ El(e).y - scrollY + El(e).h <= 0
  \/ El(e).x >= Doc.innerWidth
  \/ El(e).x + El(e).w <= 0

Count(log, x) == Cardinality({i \in DOMAIN log : log[i] = x})

\* no listener of the call in flight has made a setValue call of its own
NoNested == Count(events, "nested") = 0

\* C12: setValue on a check box with a boolean b.  The call records the
\* checked state it finds, sets it to b and goes on to focus and the two
\* events; when it returns, no listener having called setValue in between,
\* it reports success, element_type "checkbox", the recorded state as
\* previous_value and b as new_value, the box is in state b, and one change
\* and one input event were dispatched.
C12_Checkbox ==
  [][/\ (pc = "idle" /\ (pc' = "focus" \/ ret'.op = "setValue")) =>
        \A ref \in RefInputs, v \in Doc.values :
          (/\ SetValueBegin(ref, v)
           /\ FormResolve(ref).el # 0
           /\ Kind(FormResolve(ref).el) = "checkbox"
           /\ v.t = "bool") =>
            /\ pc' = "focus"
            /\ call'.prev = JBool(ctl[FormResolve(ref).el].checked)
            /\ ctl'[FormResolve(ref).el].checked = v.b
     /\ (SetValueReturn /\ Kind(call.el) = "checkbox" /\ NoNested) =>
          /\ ret'.success
          /\ ret'.element_type = "checkbox"
          /\ ret'.previous_value = call.prev
          /\ ret'.new_value = call.v
          /\ ctl'[call.el].checked = call.v.b
          /\ Count(events', "change") = 1
          /\ Count(events', "input") = 1
    ]_vars

\* C12 witness: setValue(ref, true) on an unchecked box has returned
C12_CheckedNow ==
  /\ ret.op = "setValue" /\ ret.success /\ ret.element_type = "checkbox"
  /\ ret.previous_value = JBool(FALSE) /\ ret.new_value = JBool(TRUE)
  /\ events = <<"assign", "focus", "change", "input">>

\* a setValue call of the driver begins in this step
DriverSetValueStep == pc = "idle" /\ (pc' = "focus" \/ ret'.op = "setValue")

\* C13: setValue on a select.  With an option whose value or text is the
\* stringified input the call selects the lowest such option and goes on to
\* succeed; with none it fails with a message that lists the text and value
\* of every option and leaves the selection as it was.
C13_Select ==
  [][/\ DriverSetValueStep =>
        \A ref \in RefInputs, v \in Doc.values :
          (/\ SetValueBegin(ref, v)
           /\ FormResolve(ref).el # 0
           /\ El(FormResolve(ref).el).tag = "select") =>
            LET e == FormResolve(ref).el
                opts == El(e).options
                hits == {i \in DOMAIN opts :
                           opts[i].value = String(v) \/ OptionText(opts[i]) = String(v)}
            IN IF hits = {}
               THEN /\ ret'.op = "setValue" /\ ret'.success = FALSE
                    /\ \A i \in DOMAIN opts :
                         Includes(ret'.message,
                                  "\"" \o OptionText(opts[i]) \o "\" (value: \""
                                  \o opts[i].value \o "\")")
                    /\ ctl' = ctl /\ pc' = "idle" /\ events' = <<>>
               ELSE /\ pc' = "focus" /\ ret' = NoRet
                    /\ ctl'[e].selectedIndex + 1 \in hits
                    /\ \A i \in hits : ctl'[e].selectedIndex + 1 <= i
     /\ (SetValueReturn /\ El(call.el).tag = "select") =>
          /\ ret'.success /\ ret'.element_type = "select"
          /\ NoNested => ret'.new_value = JStr(ValueOf(call.el))
    ]_vars

\* C13 witness: setValue with the text "Blue" has selected the option whose
\* value is "b" on a select that had "r" selected
C13_SelectedByText ==
  /\ ret.op = "setValue" /\ ret.success /\ ret.element_type = "select"
  /\ ret.message = "Selected option \"Blue\" in dropdown"
  /\ ret.previous_value = JStr("r") /\ ret.new_value = JStr("b")

C15_RegistrySettledBeforeEvents ==
  [][/\ (pc # "idle" /\ pc' # pc) =>
          elementMap' = elementMap /\ refCounter' = refCounter /\ hasMap' = hasMap
     /\ (DriverSetValueStep /\ elementMap' # elementMap) =>
          pc' = "idle" /\ events' = <<>> /\ ret'.success = FALSE
     /\ pc' # "idle" =>
          \A r \in DOMAIN elementMap' :
            /\ RefNum(r) \in 1..refCounter'
            /\ elementMap'[r] \in Elems
    ]_vars

\* C15 witness: a listener of the change event called setValue itself, and
\* the outer call has gone on to dispatch input
C15_NestedDuringChange ==
  /\ pc = "input"
  /\ events = <<"assign", "focus", "change", "nested", "input">>

\* where x stands in the log (0 when it does not)
Pos(log, x) ==
  IF Count(log, x) = 0 THEN 0 ELSE CHOOSE i \in DOMAIN log : log[i] = x

\* the four steps of the call each happened once
FourStepsOnce ==
  \A x \in {"assign", "focus", "change", "input"} : Count(events, x) = 1

\* C16 as stated: a setValue call that succeeded focused the element, then
\* assigned, then dispatched change, then input.
C16_FocusBeforeAssign ==
  (ret.op = "setValue" /\ ret.success) =>
    /\ FourStepsOnce
    /\ Pos(events, "focus") < Pos(events, "assign")
    /\ Pos(events, "assign") < Pos(events, "change")
    /\ Pos(events, "change") < Pos(events, "input")

\* C16 amended: a setValue call that succeeded assigned, then focused the
\* element, then dispatched change, then input.
C16_AssignBeforeFocus ==
  (ret.op = "setValue" /\ ret.success) =>
    /\ FourStepsOnce
    /\ Pos(events, "assign") < Pos(events, "focus")
    /\ Pos(events, "focus") < Pos(events, "change")
    /\ Pos(events, "change") < Pos(events, "input")

\* C16 witness: a setValue call on a text input has returned success
C16_TextSet ==
  /\ ret.op = "setValue" /\ ret.success /\ ret.element_type = "text"
  /\ ret.new_value = JStr("abc")

RECURSIVE Ancestors(_)
\* the elements above e in the tree
Ancestors(e) ==
  IF e = Root THEN {} ELSE {El(e).parent} \cup Ancestors(El(e).parent)

\* the ancestors of e that the pass just completed has emitted
IncludedAncestors(e) == {a \in Ancestors(e) : LinesOf(a) # {}}

\* C17 as stated: in a pass, an attached element that passes the inclusion
\* test and has at most 15 included ancestors has a line, whatever excluded
\* elements lie between it and the root.
C17_TransparentWrappers ==
  PassDone =>
    \A e \in Elems \ {Root} :
      (/\ InDocument(e)
       /\ shouldIncludeElement(e, snap.filter) = "yes"
       /\ Cardinality(IncludedAncestors(e)) <= DepthLimit) =>
        LinesOf(e) # {}

\* C18: depth cap.  No call of processElement is made at a depth above 15,
\* the depth of every line is the number of ancestors of its element that
\* have a line in the same pass, and an element with more than 15 such
\* ancestors has no line and is given no reference by that pass (snap.base
\* is the number of references minted before the pass).
C18_DepthCap ==
  snap.taken =>
    /\ \A c \in DOMAIN snap.calls : snap.calls[c].depth <= DepthLimit
    /\ \A i \in DOMAIN snap.lines :
         snap.lines[i].depth = Cardinality(IncludedAncestors(snap.lines[i].el))
    /\ \A e \in Elems :
         (InDocument(e) /\ Cardinality(IncludedAncestors(e)) > DepthLimit) =>
           /\ LinesOf(e) = {}
           /\ \A k \in DOMAIN minted : k > snap.base => minted[k].el # e

\* C18 witness: a pass emitted a line at depth 15 and left out an element
\* below it that passes the inclusion test
C18_CutBelowFifteen ==
  /\ PassDone
  /\ \E i \in DOMAIN snap.lines : snap.lines[i].depth = DepthLimit
  /\ \E e \in Elems :
       /\ Cardinality(IncludedAncestors(e)) > DepthLimit
       /\ shouldIncludeElement(e, snap.filter) = "yes"
       /\ LinesOf(e) = {}
  /\ Len(minted) > snap.base

\* the reference names an entry whose element is alive and attached
Resolves(ref) ==
  /\ hasMap
  /\ ref \in DOMAIN elementMap
  /\ ~collected[elementMap[ref]]
  /\ InDocument(elementMap[ref])

\* what a lookup of ref may do to the registry
LookupFrame(ref) ==
  /\ refCounter' = refCounter
  /\ hasMap' = hasMap
  /\ Resolves(ref) => elementMap' = elementMap
  /\ DOMAIN elementMap' \subseteq DOMAIN elementMap
  /\ DOMAIN elementMap \ DOMAIN elementMap' \subseteq {ref}
  /\ \A r \in DOMAIN elementMap' : elementMap'[r] = elementMap[r]

\* C19: resolution frame effect.  A locate or setValue call, made by the
\* driver or by a listener, whose reference resolves to an attached element
\* leaves the entries and the counter as they were; one whose reference does
\* not resolve deletes at most the entry under that reference, changes no
\* other entry and not the counter, and creates no entry.  The later steps of
\* a setValue call leave the registry alone.
\* (A step that leaves entries, counter and registry object as they were
\* satisfies every frame below, so only the other steps are examined.)
C19_ResolutionFrame ==
  [][<<elementMap, refCounter, hasMap>>' # <<elementMap, refCounter, hasMap>> =>
       /\ \A ref \in RefInputs :
            /\ Locate(ref) => LookupFrame(ref)
            /\ \A v \in Doc.values :
                 (SetValueBegin(ref, v) \/ ListenerSetValue(ref, v)) =>
                   LookupFrame(ref)
       /\ ~(SetValueChange \/ SetValueInput \/ SetValueReturn)
    ]_vars

\* C19 witness: setValue has answered not-found for the reference of a
\* detached element, whose entry is gone while other entries and the counter
\* remain
C19_OneEntryDeleted ==
  \E k \in DOMAIN minted :
    /\ ret = FormNotFound(minted[k].ref)
    /\ ~InDocument(minted[k].el) /\ ~collected[minted[k].el]
    /\ minted[k].ref \notin DOMAIN elementMap
    /\ \E j \in DOMAIN minted :
         /\ j # k
         /\ minted[j].ref \in DOMAIN elementMap
         /\ elementMap[minted[j].ref] = minted[j].el
    /\ refCounter = Len(minted)

\* C20: registry lifecycle.  Running the snapshot script creates the registry
\* and the counter only when they are absent; run again in the same page, at
\* any counter value, it leaves every entry and the counter as they were, so
\* every reference that resolved before resolves to the same element after.
C20_RegistryLifecycle ==
  [][Inject =>
       /\ hasMap'
       /\ ~hasMap => elementMap' = EmptyMap /\ refCounter' = 0
       /\ hasMap =>
            /\ DOMAIN elementMap' = DOMAIN elementMap
            /\ \A r \in DOMAIN elementMap : elementMap'[r] = elementMap[r]
            /\ refCounter' = refCounter
       /\ refCounter' >= refCounter
       /\ \A k \in DOMAIN minted :
            \A e \in {LocateResolve(minted[k].ref).el} :
              e # 0 => /\ LocateResolve(minted[k].ref)'.el = e
                       /\ FormResolve(minted[k].ref)'.el = e
    ]_vars

\* C20 witness: the script has just run in a page whose registry holds an
\* entry that resolves and whose counter is above 0
C20_InjectedAgain ==
  /\ ret = Injected
  /\ refCounter > 0
  /\ \E k \in DOMAIN minted : LocateResolve(minted[k].ref).el = minted[k].el

\* the elements processElement was called for in the pass
Processed == {snap.calls[c].el : c \in DOMAIN snap.calls}

\* e is not skipped outright, is visible, and passes the viewport test where
\* the filter applies it
Eligible(e, filter) ==
  /\ El(e).tag \notin {"script", "style", "meta", "link", "title", "noscript"}
  /\ El(e).ariaHidden # "true"
  /\ isVisible(e)
  /\ filter = "all" \/ ~OutsideViewport(e)

\* a div or span without a role of its own
GenericDivSpan(e) == El(e).tag \in {"div", "span"} /\ ~Truthy(El(e).role)

\* id or class of e contains one of the keywords
HasKeyword(e, kws) ==
  \E kw \in kws : Includes(El(e).id, kw) \/ Includes(El(e).className, kw)

\* the structural container rule, on the attributes of e
StructuralContainer(e) ==
  \/ El(e).tag \in {"form", "fieldset", "nav"}
  \/ El(e).role \in {"search", "form", "group", "toolbar", "navigation"}
  \/ HasKeyword(e, {"search", "menu", "nav", "form"})

\* C21 as stated: under the default filter and under "all", an eligible
\* element other than the root that the pass processes has a line if and only
\* if it is interactive, or semantic, or named, or a generic container with a
\* functional keyword, or a structural container of whatever tag.
C21_DefaultInclusionAnyTag ==
  (PassDone /\ snap.filter # "interactive") =>
    \A e \in Processed \ {Root} :
      Eligible(e, snap.filter) =>
        (LinesOf(e) # {} <=>
           \/ isInteractive(e)
           \/ isSemantic(e)
           \/ Len(getCleanName(e)) > 0
           \/ GenericDivSpan(e) /\ HasKeyword(e, FunctionalKeywords)
           \/ StructuralContainer(e))

\* C21: the same, the structural container rule applying to every element
\* but a div or span without a role, for which the functional keywords alone
\* decide.
C21_DefaultInclusion ==
  (PassDone /\ snap.filter # "interactive") =>
    \A e \in Processed \ {Root} :
      Eligible(e, snap.filter) =>
        (LinesOf(e) # {} <=>
           \/ isInteractive(e)
           \/ isSemantic(e)
           \/ Len(getCleanName(e)) > 0
           \/ GenericDivSpan(e) /\ HasKeyword(e, FunctionalKeywords)
           \/ ~GenericDivSpan(e) /\ StructuralContainer(e))

\* C21 witness: a default pass left out a nameless div classed "nav", and
\* emitted another element for the structural container rule alone and a div
\* for its functional keyword alone
C21_NavDivLeftOut ==
  /\ PassDone /\ snap.filter = Null
  /\ \E e \in Processed \ {Root} :
       /\ Eligible(e, Null) /\ GenericDivSpan(e) /\ StructuralContainer(e)
       /\ LinesOf(e) = {}
  /\ \E e \in Processed \ {Root} :
       /\ ~GenericDivSpan(e) /\ StructuralContainer(e)
       /\ ~isInteractive(e) /\ ~isSemantic(e) /\ getCleanName(e) = ""
       /\ LinesOf(e) # {}
  /\ \E e \in Processed \ {Root} :
       /\ GenericDivSpan(e) /\ HasKeyword(e, FunctionalKeywords)
       /\ ~isInteractive(e) /\ ~isSemantic(e) /\ getCleanName(e) = ""
       /\ LinesOf(e) # {}

RECURSIVE PathOf(_)
\* the elements from the root down to e
PathOf(e) == IF e = Root THEN <<Root>> ELSE Append(PathOf(El(e).parent), e)

\* a comes before b in document pre-order: a is above b, or where their
\* paths part a's branch is the earlier sibling
Precedes(a, b) ==
  LET pa == PathOf(a)
      pb == PathOf(b)
  IN \/ Len(pa) < Len(pb) /\ SubSeq(pb, 1, Len(pa)) = pa
     \/ \E i \in 1..Min(Len(pa), Len(pb)) :
          /\ SubSeq(pa, 1, i - 1) = SubSeq(pb, 1, i - 1)
          /\ pa[i] < pb[i]

\* line i of the pass is a generic line without name and annotations, told
\* from the element and not from the text of the line
BareLine(i) ==
  LET l == snap.lines[i]
  IN /\ l.role = "generic"
     /\ l.name = ""
     /\ El(l.el).id = ""
     /\ ~Truthy(El(l.el).href)
     /\ ~Truthy(El(l.el).type)
     /\ ~Truthy(El(l.el).placeholder)

\* C22: post-filter.  Of the lines a pass emitted, exactly the bare generic
\* ones are missing from the returned content; the others are returned in
\* document pre-order; the reference of a removed line is still registered
\* for its element.
C22_PostFilter ==
  (PassDone /\ ret.op = "snapshot") =>
    /\ \A i \in DOMAIN snap.lines : snap.lines[i].kept <=> ~BareLine(i)
    /\ ret.pageContent =
         Join(SelectSeq([i \in DOMAIN snap.lines |->
                           IF BareLine(i) THEN "" ELSE snap.lines[i].line],
                        LAMBDA l : l # ""))
    /\ \A i, j \in DOMAIN snap.lines :
         i < j => Precedes(snap.lines[i].el, snap.lines[j].el)
    /\ \A i \in DOMAIN snap.lines :
         BareLine(i) =>
           /\ snap.lines[i].ref \in DOMAIN elementMap
           /\ elementMap[snap.lines[i].ref] = snap.lines[i].el

\* C22 witness: a pass dropped the line of a div below the root and returned
\* a generic line that carries an id
C22_DroppedAndKeptGeneric ==
  /\ PassDone /\ ret.op = "snapshot"
  /\ \E i \in DOMAIN snap.lines :
       /\ snap.lines[i].el # Root /\ BareLine(i)
       /\ ~Includes(ret.pageContent, snap.lines[i].ref \o "]")
  /\ \E i \in DOMAIN snap.lines :
       /\ snap.lines[i].role = "generic" /\ ~BareLine(i)
       /\ Includes(ret.pageContent, snap.lines[i].line)

\* C23 as stated: the name a pass gives a select is the text of the option
\* that is selected when the pass runs, which after a successful setValue is
\* the option setValue selected.
C23_SelectNamedBySelection ==
  PassDone =>
    \A i \in DOMAIN snap.lines :
      \A e \in {snap.lines[i].el} :
        (El(e).tag = "select" /\ ctl[e].selectedIndex >= 0) =>
          \A t \in {Trim(El(e).options[ctl[e].selectedIndex + 1].text)} :
            t # "" => snap.lines[i].name = t

\* s begins with pre
StartsWith(s, pre) == Len(s) >= Len(pre) /\ SubSeq(s, 1, Len(pre)) = pre

DateTypes == {"date", "time", "datetime-local", "month", "week"}

\* the one branch an element belongs to, by tag and type
BranchOf(e) ==
  CASE El(e).tag = "select" -> "select"
    [] El(e).tag = "textarea" -> "text"
    [] El(e).tag = "input" /\ TypeProp(e) = "checkbox" -> "checkbox"
    [] El(e).tag = "input" /\ TypeProp(e) = "radio" -> "radio"
    [] El(e).tag = "input" /\ TypeProp(e) \in DateTypes -> "date"
    [] El(e).tag = "input" /\ TypeProp(e) = "range" -> "range"
    [] El(e).tag = "input" /\ TypeProp(e) = "number" -> "number"
    [] El(e).tag = "input" -> "text"
    [] OTHER -> "unsupported"

\* how the success message of each branch begins
SuccessPrefix(b, e) ==
  CASE b = "select" -> "Selected option \""
    [] b = "checkbox" -> "Checkbox "
    [] b = "radio" -> "Radio button selected"
    [] b = "date" -> "Set " \o TypeProp(e) \o " to \""
    [] b = "range" -> "Set range to "
    [] b = "number" -> "Set number input to "
    [] OTHER -> "Set " \o (IF El(e).tag = "textarea" THEN "textarea" ELSE TypeProp(e))
                \o " value to \""

\* how the failure messages a branch can return begin
FailurePrefixes(b) ==
  {"Error setting form value: "} \cup
  (CASE b = "select" -> {"Option \""}
     [] b = "checkbox" -> {"Checkbox requires"}
     [] b = "range" -> {"Range input requires"}
     [] b = "number" -> {"Number input requires"}
     [] b = "unsupported" -> {"Element type \""}
     [] OTHER -> {})

\* C24: control-kind dispatch.  A setValue call of the driver whose reference
\* resolves answers as the one branch the element's tag and type select: a
\* failure it returns is one of that branch's, its success names that
\* branch.  It returns the unsupported-control failure exactly when the
\* element is no select, input or textarea, and then changes no control,
\* focuses nothing and dispatches no event.  (A call that goes on to focus
\* has recorded its arguments in call, where they are read from.)
C24_Dispatch ==
  [][/\ (pc = "idle" /\ (pc' = "focus" \/ ret'.op = "setValue")) =>
          \A ref \in (IF pc' = "focus" THEN {call'.ref} ELSE RefInputs),
             v \in (IF pc' = "focus" THEN {call'.v} ELSE Doc.values) :
            (Resolves(ref) /\ SetValueBegin(ref, v)) =>
              \A e \in {elementMap[ref]} :
                /\ ret'.op = "setValue" =>
                     /\ ~ret'.success
                     /\ \E pre \in FailurePrefixes(BranchOf(e)) :
                          StartsWith(ret'.message, pre)
                /\ (/\ ret'.op = "setValue"
                    /\ ret'.message = "Element type \"" \o ToUpperCase(El(e).tag)
                                      \o "\" is not a supported form input")
                   <=> El(e).tag \notin {"select", "input", "textarea"}
                /\ El(e).tag \notin {"select", "input", "textarea"} =>
                     ctl' = ctl /\ events' = <<>> /\ pc' = "idle"
                /\ pc' = "focus" =>
                     /\ BranchOf(e) = "radio" => ctl'[e].checked
                     /\ BranchOf(e) = "checkbox" => ctl'[e].checked = v.b
                     /\ BranchOf(e) \in {"checkbox", "radio", "select"} =>
                          ctl'[e].value = ctl[e].value
                     /\ BranchOf(e) \notin {"checkbox", "radio"} =>
                          ctl'[e].checked = ctl[e].checked
     /\ (pc = "input" /\ pc' = "idle") =>
          /\ ret'.success
          /\ StartsWith(ret'.message, SuccessPrefix(BranchOf(call.el), call.el))
    ]_vars

\* C24 witness: setValue has answered that a button is not a supported
\* control, and nothing was dispatched
C24_UnsupportedAnswered ==
  \E e \in Elems :
    /\ El(e).tag = "button"
    /\ ret = FormFailure("Element type \"BUTTON\" is not a supported form input")
    /\ events = <<>>

\* C25 as stated: when a setValue call of the driver returns success false,
\* whatever the cause, no change and no input event has been dispatched, and
\* the target control (no listener having called setValue meanwhile) holds
\* the value or checked state it held when the call began.
C25_FailureChangesNothing ==
  [][(ret.op # "setValue" /\ ret'.op = "setValue" /\ ~ret'.success) =>
       /\ Count(events', "change") = 0
       /\ Count(events', "input") = 0
       /\ pc = "idle" => ctl' = ctl
       /\ (pc # "idle" /\ NoNested) =>
            \A e \in {call.el} : CurrentValue(e)' = call.prev
    ]_vars

\* no two entries of the map hold the same element
Injective(map) ==
  \A r, q \in DOMAIN map : r # q => map[r] # map[q]

\* C26: registry invariant.  Over every step the map from reference to
\* element stays injective, an entry that is kept still holds the element it
\* held, and an entry that appears has a number above every number handed
\* out before, so that no reference is ever bound to a second element.
C26_RegistryInvariant ==
  [][/\ Injective(elementMap) /\ Injective(elementMap')
     /\ \A r \in DOMAIN elementMap \cap DOMAIN elementMap' :
          elementMap'[r] = elementMap[r]
     /\ \A r \in DOMAIN elementMap' \ DOMAIN elementMap :
          /\ RefNum(r) > refCounter
          /\ RefNum(r) <= refCounter'
          /\ \A k \in DOMAIN minted : minted[k].ref # r
     /\ \A r \in DOMAIN elementMap : RefNum(r) <= refCounter
    ]_vars

\* C26 witness: the registry holds several entries, one of them the second
\* reference of an element whose first entry was deleted
C26_SecondEntryAfterDelete ==
  /\ Cardinality(DOMAIN elementMap) >= 2
  /\ \E j, k \in DOMAIN minted :
       /\ j < k /\ minted[j].el = minted[k].el
       /\ minted[j].ref \notin DOMAIN elementMap
       /\ minted[k].ref \in DOMAIN elementMap
       /\ elementMap[minted[k].ref] = minted[k].el

\* the references handed out so far that have no entry any more
DeadRefs == {minted[k].ref : k \in DOMAIN minted} \ DOMAIN elementMap

\* C27: staleness is permanent.  A locate or setValue call of the driver that
\* reports not-found for a reference handed out earlier leaves no entry under
\* it; a reference without entry never gets one again; every lookup of it
\* reports not-found, wherever its element is; and a pass that emits that
\* element gives it a reference with a greater number.
C27_StalenessPermanent ==
  [][/\ DeadRefs \subseteq DeadRefs'
     /\ (pc = "idle" /\ ret'.op \in {"locate", "setValue"}) =>
          \A k \in DOMAIN minted :
            \A ref \in {minted[k].ref} :
              /\ ret' \in {LocateNotFound(ref), FormNotFound(ref)} =>
                   ref \in DeadRefs'
              /\ ref \in DeadRefs =>
                   /\ Locate(ref) => ret' = LocateNotFound(ref)
                   /\ \A v \in Doc.values :
                        SetValueBegin(ref, v) => ret' = FormNotFound(ref)
     /\ (~snap.taken /\ snap'.taken) =>
          \A i \in DOMAIN snap'.lines : \A k \in DOMAIN minted :
            (minted[k].el = snap'.lines[i].el /\ minted[k].ref \in DeadRefs) =>
              RefNum(snap'.lines[i].ref) > RefNum(minted[k].ref)
    ]_vars

\* C27 witness: locate reports not-found for the first reference of an
\* element that is attached again and holds a second, greater reference
C27_OldReferenceStillStale ==
  \E j, k \in DOMAIN minted :
    /\ j < k /\ minted[j].el = minted[k].el
    /\ InDocument(minted[k].el)
    /\ minted[k].ref \in DOMAIN elementMap
    /\ RefNum(minted[k].ref) > RefNum(minted[j].ref)
    /\ ret = LocateNotFound(minted[j].ref)

\* the element is alive and attached
LiveAttached(e) == ~collected[e] /\ InDocument(e)

\* C28: no spurious invalidation.  No step, be it a pass with its sweep, a
\* locate or a setValue, by the driver or by a listener, removes or re-points
\* the entry of an element that is alive and attached when the step is
\* taken; a reference that resolves goes on resolving to the same element
\* over every step after which its element is still attached.
C28_NoSpuriousInvalidation ==
  [][\A r \in DOMAIN elementMap :
       \A e \in {elementMap[r]} :
         LiveAttached(e) =>
           /\ r \in DOMAIN elementMap'
           /\ elementMap'[r] = e
           /\ hasMap'
           /\ LiveAttached(e)' => LocateResolve(r)'.el = e /\ FormResolve(r)'.el = e
    ]_vars

\* C28 witness: locate has found an element by its reference after a pass
\* swept the entry of a collected element and a lookup deleted the entry of a
\* detached one
C28_FoundAfterDeletions ==
  /\ ret.op = "locate" /\ ret.success
  /\ \E k \in DOMAIN minted :
       /\ minted[k].ref \in DOMAIN elementMap
       /\ LiveAttached(minted[k].el)
       /\ ret.elementRef = minted[k].ref
       /\ ret.target = minted[k].el
  /\ \E j \in DOMAIN minted :
       minted[j].ref \in DeadRefs /\ collected[minted[j].el]
  /\ \E j \in DOMAIN minted :
       minted[j].ref \in DeadRefs /\ ~collected[minted[j].el]

\* the lines of the pass that are in the returned content, in order
ReturnedLines == SelectSeq(snap.lines, LAMBDA l : l.kept)

\* C29 as stated: the returned content is a well-formed indented tree: its
\* first line has depth 0 and no line is more than one level deeper than the
\* line before it.
C29_WellFormedTree ==
  (PassDone /\ ret.op = "snapshot") =>
    \A K \in {ReturnedLines} :
      /\ Len(K) > 0 => K[1].depth = 0
      /\ \A i \in 2..Len(K) : K[i].depth <= K[i - 1].depth + 1

\* the elements of a sequence of lines
ElsOf(lines) == {lines[i].el : i \in DOMAIN lines}

\* the elements whose lines pass the post-filter
KeptElsOf(lines) == {lines[i].el : i \in {j \in DOMAIN lines : Kept(lines[j].line)}}

====
